---- MODULE Spec2Model ----
(***************************************************************************)
(* Depot routing: optimize_routes of optimizer.py (multi-route, fixed      *)
(* decisions, custom start/end point) and of app.py (the simplest          *)
(* variant).  The MILP handed to the solver is modelled by its constraints *)
(* and objective; the solver by the choice of any feasible assignment of   *)
(* least objective value; route extraction by the loops of the source, one *)
(* action per loop iteration.  The depot list is the two depots A and B.   *)
(* A call that cannot be built ends in the KeyError of its first failing   *)
(* lookup.  display_optimization_results of ui.py follows a returned       *)
(* result of optimizer.py.  IngestSpec is the loop of app.py main that     *)
(* fills the driving times dictionary from the rows of the table.          *)
(***************************************************************************)
EXTENDS Integers, Sequences, FiniteSets, TLC

(* ---- bounds ------------------------------------------------------------ *)
\* max_routes ranges over 1..MaxRoutes
MaxRoutes == 2
\* the route-completion loop is followed until a route holds this many stops
MaxRouteLen == 7
\* the driving-time table holds at most this many rows
MaxRecords == 3

(* ---- the locations ----------------------------------------------------- *)
bank == "H"
depots == <<"A", "B">>
all_locations == <<bank>> \o depots

DepotSet == {depots[m] : m \in 1..Len(depots)}
LocationSet == {all_locations[m] : m \in 1..Len(all_locations)}

all_routes(K) == 1..K

(* ---- dictionaries ------------------------------------------------------ *)
\* Faulty variant: a missing key is priced at 1
GetMissingAsOne(d, key, default) == IF key \in DOMAIN d THEN d[key] ELSE 1

\* dict.get(key, default)
Get(d, key, default) == IF key \in DOMAIN d THEN d[key] ELSE default

\* pulp.lpSum over the values of f
RECURSIVE SumOn(_, _)
SumOn(f, S) ==
    IF S = {} THEN 0
    ELSE LET x == CHOOSE y \in S : TRUE
         IN  f[x] + SumOn(f, S \ {x})

lpSum(f) == SumOn(f, DOMAIN f)

(* ---- decision variables ------------------------------------------------ *)
\* the keys of link: (i, j, k) with i # j
LinkKeys(K) == {e \in LocationSet \X LocationSet \X all_routes(K) : e[1] # e[2]}
\* the keys of u
PositionKeys(K) == DepotSet \X all_routes(K)
\* An assignment holds the binaries that are 1: direct \subseteq DepotSet,
\* link \subseteq LinkKeys(K).
direct_shipment(a, i) == IF i \in a.direct THEN 1 ELSE 0
link(a, i, j, k) == IF <<i, j, k>> \in a.link THEN 1 ELSE 0
\* u[i,k] integer with lowBound=1, upBound=len(depots)
Positions(K) == [PositionKeys(K) -> 1..Len(depots)]

(* ---- constraints of the model (optimizer.py 45-92) ---------------------- *)
\* Faulty variant: only 'Wait for pickup' is pinned
FixedDecisionsPickupOnly(a, fixed, sp, ep) ==
    \A i \in DepotSet : fixed[i] = "Wait for pickup" => direct_shipment(a, i) = 0

\* Honor fixed decisions
FixedDecisionConstraints(a, fixed, sp, ep) ==
    \A i \in DepotSet :
        IF fixed[i] = "Ship to bank" /\ i # sp /\ i # ep
        THEN direct_shipment(a, i) = 1
        ELSE IF fixed[i] = "Wait for pickup"
             THEN direct_shipment(a, i) = 0
             ELSE TRUE

\* Faulty variant: a depot may be left out: <= 1 instead of == 1
CoverageAtMostOnce(a, K) ==
    \A i \in DepotSet :
        direct_shipment(a, i)
          + lpSum([jk \in {p \in LocationSet \X all_routes(K) : p[1] # i}
                      |-> link(a, jk[1], i, jk[2])]) <= 1

\* Each depot is either visited or sends direct shipment
CoverageConstraints(a, K) ==
    \A i \in DepotSet :
        direct_shipment(a, i)
          + lpSum([jk \in {p \in LocationSet \X all_routes(K) : p[1] # i}
                      |-> link(a, jk[1], i, jk[2])]) = 1

\* Flow conservation: if a depot is visited, we must leave it
FlowConstraints(a, K) ==
    \A i \in DepotSet : \A k \in all_routes(K) :
        lpSum([j \in LocationSet \ {i} |-> link(a, i, j, k)])
          = lpSum([j \in LocationSet \ {i} |-> link(a, j, i, k)])

\* Faulty variant: the number of times the bank is left is not bounded
BankLeftUnbounded(a, K) == TRUE

\* The bank is left at most max_routes times
BankLeftConstraint(a, K) ==
    lpSum([jk \in DepotSet \X all_routes(K) |-> link(a, bank, jk[1], jk[2])]) <= K

\* The bank is reached the same number of times it is left
BankReachedConstraint(a, K) ==
    lpSum([jk \in DepotSet \X all_routes(K) |-> link(a, bank, jk[1], jk[2])])
      = lpSum([jk \in DepotSet \X all_routes(K) |-> link(a, jk[1], bank, jk[2])])

\* Faulty variant: the start point is not enforced
StartPointNotEnforced(a, K, sp) == TRUE

\* Enforcing a "start_point" that is not the bank
StartPointConstraint(a, K, sp) ==
    sp # bank => lpSum([k \in all_routes(K) |-> link(a, bank, sp, k)]) = 1

\* Enforcing an "end_point" that is not the bank
EndPointConstraint(a, K, ep) ==
    ep # bank => lpSum([k \in all_routes(K) |-> link(a, ep, bank, k)]) = 1

\* Faulty variant: the right-hand side is M, not M - 1
MTZConstraintsLoose(a, u, K) ==
    LET M == Len(depots)
    IN  \A i \in DepotSet : \A j \in DepotSet : \A k \in all_routes(K) :
            i # j => u[<<i, k>>] - u[<<j, k>>] + M * link(a, i, j, k) <= M

\* Subtour elimination constraints (MTZ formulation)
MTZConstraints(a, u, K) ==
    LET M == Len(depots)
    IN  \A i \in DepotSet : \A j \in DepotSet : \A k \in all_routes(K) :
            i # j => u[<<i, k>>] - u[<<j, k>>] + M * link(a, i, j, k) <= M - 1

\* Faulty variant: the driving time has to stay below the budget: < for <=
RouteTimeStrictlyBelow(a, K, times, maxtime) ==
    \A k \in all_routes(K) :
        lpSum([ij \in {p \in LocationSet \X LocationSet : p[1] # p[2]}
                  |-> Get(times, ij, 0) * link(a, ij[1], ij[2], k)]) < maxtime

\* Route time constraint
RouteTimeConstraints(a, K, times, maxtime) ==
    \A k \in all_routes(K) :
        lpSum([ij \in {p \in LocationSet \X LocationSet : p[1] # p[2]}
                  |-> Get(times, ij, 0) * link(a, ij[1], ij[2], k)]) <= maxtime

\* Faulty variant: the distance term is left out of the routing cost
ObjectiveTimeOnly(a, K, dcosts, times, dists, drate, trate) ==
    lpSum([i \in DepotSet |-> dcosts[i] * direct_shipment(a, i)])
      + lpSum([e \in LinkKeys(K) |->
                 (Get(times, <<e[1], e[2]>>, 0) * trate) * link(a, e[1], e[2], e[3])])

\* Objective function: cost of direct shipments + cost of routing
Objective(a, K, dcosts, times, dists, drate, trate) ==
    lpSum([i \in DepotSet |-> dcosts[i] * direct_shipment(a, i)])
      + lpSum([e \in LinkKeys(K) |->
                 (Get(times, <<e[1], e[2]>>, 0) * trate
                    + Get(dists, <<e[1], e[2]>>, 0) * drate)
                 * link(a, e[1], e[2], e[3])])

(* ---- the feasible region and the solver -------------------------------- *)
\* Link keys that enter a depot, and link keys that enter the bank.
IntoDepotKeys(K) == {e \in LinkKeys(K) : e[2] \in DepotSet}
IntoBankKeys(K) == {e \in LinkKeys(K) : e[2] = bank}

\* Some value of u satisfies the subtour elimination constraints.
PositionsExist(a, K) == \E u \in Positions(K) : MTZConstraints(a, u, K)

\* The constraints that read nothing but max_routes.  All 0/1 values of
\* direct and link are enumerated; coverage reads no link entering the bank,
\* so it is applied before those links are enumerated.
StructuralConstraints(a, K) ==
    /\ CoverageConstraints(a, K)
    /\ FlowConstraints(a, K)
    /\ BankLeftConstraint(a, K)
    /\ BankReachedConstraint(a, K)

StructuralAssignments(K) ==
    LET covered == {c \in [direct : SUBSET DepotSet, link : SUBSET IntoDepotKeys(K)] :
                        CoverageConstraints(c, K)}
        all == UNION {{[direct |-> c.direct, link |-> c.link \cup b] :
                          b \in SUBSET IntoBankKeys(K)} : c \in covered}
    IN  {a \in all : StructuralConstraints(a, K)}

StructuralTable == [K \in 1..MaxRoutes |-> StructuralAssignments(K)]

\* The assignments that satisfy every constraint added to prob (for some u).
Feasible(K, fixed, sp, ep, times, maxtime) ==
    {a \in StructuralTable[K] :
        /\ FixedDecisionConstraints(a, fixed, sp, ep)
        /\ StartPointConstraint(a, K, sp)
        /\ EndPointConstraint(a, K, ep)
        /\ RouteTimeConstraints(a, K, times, maxtime)
        /\ PositionsExist(a, K)}

\* pulp.LpStatus
LpStatus == (0 :> "Not Solved") @@ (1 :> "Optimal") @@ (-1 :> "Infeasible")
              @@ (-2 :> "Unbounded") @@ (-3 :> "Undefined")
\* What the solver reports for a model without a solution.
NoSolutionStatus == {-1, -3}

NoAssignment == [direct |-> {}, link |-> {}]

(* ---- the simplest variant: optimize_routes of app.py -------------------- *)
\* x[i] is direct_shipment; y[i,j] has no route index and is held as the
\* link keys (i, j, 1).
x(a, i) == direct_shipment(a, i)
y(a, i, j) == link(a, i, j, 1)
\* u[i] integer with lowBound=1, upBound=len(depots)
AppPositions == [DepotSet -> 1..Len(depots)]

\* Each depot is either visited or sends direct shipment
AppCoverageConstraints(a) ==
    \A i \in DepotSet :
        x(a, i) + lpSum([j \in LocationSet \ {i} |-> y(a, j, i)]) = 1

\* Flow conservation: if a depot is visited, we must leave it
AppFlowConstraints(a) ==
    \A i \in DepotSet :
        lpSum([j \in LocationSet \ {i} |-> y(a, i, j)])
          = lpSum([j \in LocationSet \ {i} |-> y(a, j, i)])

\* The bank is left at most max_routes times
AppBankLeftConstraint(a, maxr) ==
    lpSum([j \in DepotSet |-> y(a, bank, j)]) <= maxr

\* The bank is reached the same number of times it is left
AppBankReachedConstraint(a) ==
    lpSum([j \in DepotSet |-> y(a, bank, j)]) = lpSum([j \in DepotSet |-> y(a, j, bank)])

\* Subtour elimination constraints (MTZ formulation)
AppMTZConstraints(a, u) ==
    LET M == Len(depots)
    IN  \A i \in DepotSet : \A j \in DepotSet :
            i # j => u[i] - u[j] + M * y(a, i, j) <= M - 1

\* Faulty variant: the driving time is not limited
AppRouteTimeUnlimited(a, times, maxtime) == TRUE

\* Route time constraint: one sum over every selected link
AppRouteTimeConstraint(a, times, maxtime) ==
    lpSum([ij \in {p \in LocationSet \X LocationSet : p[1] # p[2]}
              |-> Get(times, ij, 0) * y(a, ij[1], ij[2])]) <= maxtime

\* Objective function: cost of direct shipments + cost of routing
AppObjective(a, dcosts, times) ==
    lpSum([i \in DepotSet |-> dcosts[i] * x(a, i)])
      + lpSum([ij \in {p \in LocationSet \X LocationSet : p[1] # p[2]}
                  |-> Get(times, ij, 0) * y(a, ij[1], ij[2])])

AppPositionsExist(a) == \E u \in AppPositions : AppMTZConstraints(a, u)

AppStructuralConstraints(a, maxr) ==
    /\ AppCoverageConstraints(a)
    /\ AppFlowConstraints(a)
    /\ AppBankLeftConstraint(a, maxr)
    /\ AppBankReachedConstraint(a)

AppStructuralAssignments(maxr) ==
    LET covered == {c \in [direct : SUBSET DepotSet, link : SUBSET IntoDepotKeys(1)] :
                        AppCoverageConstraints(c)}
        all == UNION {{[direct |-> c.direct, link |-> c.link \cup b] :
                          b \in SUBSET IntoBankKeys(1)} : c \in covered}
    IN  {a \in all : AppStructuralConstraints(a, maxr)}

AppStructuralTable == [maxr \in 1..MaxRoutes |-> AppStructuralAssignments(maxr)]

\* The assignments that satisfy every constraint added to prob (for some u).
AppFeasible(maxr, times, maxtime) ==
    {a \in AppStructuralTable[maxr] :
        /\ AppRouteTimeConstraint(a, times, maxtime)
        /\ AppPositionsExist(a)}

(* ---- inputs ------------------------------------------------------------ *)
FixedDecisionValues == {"Not fixed", "Ship to bank", "Wait for pickup"}
\* -1: a budget no assignment meets (optimize_routes does not validate it);
\* 0: a budget only links without driving time meet
TimeBudgets == {-1, 0, 30, 50, 90}

ScenarioTimes == (<<"H", "A">> :> 20) @@ (<<"A", "B">> :> 15) @@ (<<"B", "H">> :> 25)
MirroredTimes == ScenarioTimes @@ (<<"A", "H">> :> 20) @@ (<<"B", "A">> :> 15)
                   @@ (<<"H", "B">> :> 25)
NearBankTimes == (<<"H", "A">> :> 2) @@ (<<"A", "H">> :> 2) @@ (<<"H", "B">> :> 3)
                   @@ (<<"B", "H">> :> 3) @@ (<<"A", "B">> :> 100) @@ (<<"B", "A">> :> 100)
NoEntries == [p \in {} |-> 0]
SomeDistances == (<<"H", "A">> :> 10) @@ (<<"A", "H">> :> 10) @@ (<<"H", "B">> :> 12)
                   @@ (<<"B", "H">> :> 12) @@ (<<"A", "B">> :> 4) @@ (<<"B", "A">> :> 6)
ScenarioCosts == ("A" :> 50) @@ ("B" :> 80)
CheapCosts == ("A" :> 10) @@ ("B" :> 10)
\* a cost dictionary without an entry for depot B
CostsWithoutB == ("A" :> 50)
\* a designation that is neither the bank nor in the depot list
Unlisted == "Z"
AnchorChoices == LocationSet \cup {Unlisted}

DataSets ==
    { [direct_costs |-> ScenarioCosts, driving_times |-> ScenarioTimes,
       driving_distances |-> NoEntries, distance_rate |-> 0, time_rate |-> 1],
      [direct_costs |-> ScenarioCosts, driving_times |-> MirroredTimes,
       driving_distances |-> NoEntries, distance_rate |-> 0, time_rate |-> 1],
      [direct_costs |-> ScenarioCosts, driving_times |-> NearBankTimes,
       driving_distances |-> SomeDistances, distance_rate |-> 1, time_rate |-> 1],
      [direct_costs |-> CheapCosts, driving_times |-> NearBankTimes,
       driving_distances |-> NoEntries, distance_rate |-> 0, time_rate |-> 1],
      [direct_costs |-> CheapCosts, driving_times |-> MirroredTimes,
       driving_distances |-> SomeDistances, distance_rate |-> 3, time_rate |-> 2],
      [direct_costs |-> ScenarioCosts, driving_times |-> NoEntries,
       driving_distances |-> SomeDistances, distance_rate |-> 1, time_rate |-> 1],
      [direct_costs |-> CostsWithoutB, driving_times |-> MirroredTimes,
       driving_distances |-> NoEntries, distance_rate |-> 0, time_rate |-> 1] }

(* ---- state ------------------------------------------------------------- *)
VARIABLES
    variant,           \* "optimizer": optimizer.py, "app": app.py
    pc,                \* position in optimize_routes
    start_point, end_point, direct_costs, fixed_decisions, driving_times,
    driving_distances, max_driving_time, max_routes, distance_rate, time_rate,
    status,            \* pulp.LpStatus[prob.status]
    solution,          \* the values of direct_shipment and link after solve
    direct_shipments, current_routes, routes,
    route_index,       \* index of `route` in `for route in current_routes`
    result,            \* the returned dictionary
    error,             \* the raised exception
    driving_times_data, \* the rows of the driving-time table
    row_index,         \* index of `row` in `for idx, row in ...iterrows()`
    overall_total_cost \* the total written by display_optimization_results

args == <<start_point, end_point, direct_costs, fixed_decisions, driving_times,
          driving_distances, max_driving_time, max_routes, distance_rate, time_rate>>
\* what the page holds around the call of optimize_routes
page == <<driving_times_data, row_index, overall_total_cost>>
vars == <<variant, pc, args, status, solution, direct_shipments, current_routes, routes,
          route_index, result, error, page>>

None == "None"

\* What both variants start from.
InitLocals ==
    /\ pc = "start"
    /\ status = LpStatus[0]
    /\ solution = NoAssignment
    /\ direct_shipments = None
    /\ current_routes = <<>>
    /\ routes = <<>>
    /\ route_index = 0
    /\ result = None
    /\ error = None
    /\ driving_times_data = <<>>
    /\ row_index = 0
    /\ overall_total_cost = None

\* A call of optimizer.optimize_routes
InitOptimizer ==
    /\ variant = "optimizer"
    /\ start_point \in AnchorChoices
    /\ end_point \in AnchorChoices
    /\ fixed_decisions \in [DepotSet -> FixedDecisionValues]
    /\ max_driving_time \in TimeBudgets
    /\ max_routes \in 1..MaxRoutes
    /\ \E d \in DataSets :
          /\ direct_costs = d.direct_costs
          /\ driving_times = d.driving_times
          /\ driving_distances = d.driving_distances
          /\ distance_rate = d.distance_rate
          /\ time_rate = d.time_rate

\* A call of app.optimize_routes: no anchors, no fixed decisions, no
\* distances and no rates; routes start and end at the bank.
InitApp ==
    /\ variant = "app"
    /\ start_point = bank
    /\ end_point = bank
    /\ fixed_decisions = [i \in DepotSet |-> "Not fixed"]
    /\ max_driving_time \in TimeBudgets
    /\ max_routes \in 1..MaxRoutes
    /\ \E d \in DataSets :
          /\ direct_costs = d.direct_costs
          /\ driving_times = d.driving_times
    /\ driving_distances = NoEntries
    /\ distance_rate = 0
    /\ time_rate = 1

Init == InitLocals /\ (InitOptimizer \/ InitApp)

\* The objective value of an assignment under the inputs of this call.
Cost(a) == Objective(a, max_routes, direct_costs, driving_times, driving_distances,
                     distance_rate, time_rate)

FeasibleNow == Feasible(max_routes, fixed_decisions, start_point, end_point,
                        driving_times, max_driving_time)

\* The assignments of least objective value.
OptimalAssignments(F) ==
    LET values == {Cost(a) : a \in F}
        least == CHOOSE c \in values : \A d \in values : c <= d
    IN  {a \in F : Cost(a) = least}

\* Faulty variant: only the cost dictionary is looked up while building
KeyErrorCostsOnly(dcosts, sp, ep) ==
    LET Missing(i) == i \notin DOMAIN dcosts
        missing == SelectSeq(depots, Missing)
    IN  IF missing # <<>> THEN missing[1] ELSE None

\* The key of the first failing dictionary lookup while the problem is
\* built, None if every lookup succeeds: direct_costs[i] in the objective
\* (optimizer.py 41, app.py 39), link[bank, start_point, k] (optimizer.py
\* 74) and link[end_point, bank, k] (optimizer.py 78), k the first route.
KeyError(dcosts, sp, ep) ==
    LET Missing(i) == i \notin DOMAIN dcosts
        missing == SelectSeq(depots, Missing)
    IN  IF missing # <<>> THEN missing[1]
        ELSE IF sp # bank /\ sp \notin DepotSet THEN <<bank, sp, 1>>
        ELSE IF ep # bank /\ ep \notin DepotSet THEN <<ep, bank, 1>>
        ELSE None

\* optimizer.py 41, 74, 78: a lookup fails while the problem is built and
\* the KeyError leaves optimize_routes
RaiseKeyError ==
    /\ variant = "optimizer"
    /\ pc = "start"
    /\ KeyError(direct_costs, start_point, end_point) # None
    /\ error' = <<"KeyError", KeyError(direct_costs, start_point, end_point)>>
    /\ pc' = "failed"
    /\ UNCHANGED <<page, variant, args, status, solution, direct_shipments, current_routes,
                   routes, route_index, result>>

\* optimizer.py 24-95: build the problem and solve it
Solve ==
    /\ variant = "optimizer"
    /\ pc = "start"
    /\ KeyError(direct_costs, start_point, end_point) = None
    /\ LET F == FeasibleNow
       IN  IF F = {}
           THEN /\ \E code \in NoSolutionStatus : status' = LpStatus[code]
                /\ solution' = NoAssignment
           ELSE /\ status' = LpStatus[1]
                /\ solution' \in OptimalAssignments(F)
    /\ pc' = "solved"
    /\ UNCHANGED <<page, variant, args, direct_shipments, current_routes, routes, route_index, result, error>>

\* Faulty variant: only the status Infeasible raises; any other goes on to extract
RaiseOnlyInfeasible ==
    /\ variant = "optimizer"
    /\ pc = "solved"
    /\ status # "Optimal"
    /\ IF status = "Infeasible"
       THEN /\ error' = <<"Could not find an optimal solution. Status: ", status>>
            /\ pc' = "raised"
            /\ UNCHANGED route_index
       ELSE /\ pc' = "routes"
            /\ route_index' = 1
            /\ UNCHANGED error
    /\ UNCHANGED <<page, variant, args, status, solution, direct_shipments, current_routes,
                   routes, result>>

\* optimizer.py 98-99: the status check
RaiseNotOptimal ==
    /\ variant = "optimizer"
    /\ pc = "solved"
    /\ status # "Optimal"
    /\ error' = <<"Could not find an optimal solution. Status: ", status>>
    /\ pc' = "raised"
    /\ UNCHANGED <<page, variant, args, status, solution, direct_shipments, current_routes,
                   routes, route_index, result>>

(* ---- extraction of the results (optimizer.py 101-130) ------------------- *)
\* {i: True for i in depots if direct_shipment[i].value() > 0.5}
DirectShipments(a) == [i \in {d \in DepotSet : direct_shipment(a, d) = 1} |-> TRUE]

\* the pairs (j, k) in the order of `for j in depots: for k in all_routes`
DepotRoutePairs(K) ==
    [m \in 1..(Len(depots) * K) |-> <<depots[((m - 1) \div K) + 1], ((m - 1) % K) + 1>>]

\* Faulty variant: the routes are seeded at the bank whatever the start point
StartingRoutesAtBank(a, K, sp) ==
    LET Selected(p) == p[1] # sp /\ link(a, sp, p[1], p[2]) = 1
        hits == SelectSeq(DepotRoutePairs(K), Selected)
    IN  [m \in 1..Len(hits) |-> <<bank, hits[m][1]>>]

\* Find the starting depots: one [start_point, j] per selected link
\* (start_point, j, k), j a depot other than start_point
StartingRoutes(a, K, sp) ==
    LET Selected(p) == p[1] # sp /\ link(a, sp, p[1], p[2]) = 1
        hits == SelectSeq(DepotRoutePairs(K), Selected)
    IN  [m \in 1..Len(hits) |-> <<sp, hits[m][1]>>]

\* One pass of `for j in all_locations: for k in all_routes` with current
\* fixed: every j that has a selected link (current, j, k) for some k is
\* appended, once (the break leaves the loop over k only).
Appended(a, K, current) ==
    LET Selected(j) == j # current /\ \E k \in all_routes(K) : link(a, current, j, k) = 1
    IN  SelectSeq(all_locations, Selected)

Last(route) == route[Len(route)]

\* optimizer.py 102-113
ExtractResults ==
    /\ variant = "optimizer"
    /\ pc = "solved"
    /\ status = "Optimal"
    /\ direct_shipments' = DirectShipments(solution)
    /\ routes' = <<>>
    /\ current_routes' = StartingRoutes(solution, max_routes, start_point)
    /\ route_index' = 1
    /\ pc' = "routes"
    /\ UNCHANGED <<page, variant, args, status, solution, result, error>>

\* optimizer.py 117-123: one iteration of the while loop
CompleteStep ==
    /\ variant = "optimizer"
    /\ pc = "routes"
    /\ route_index <= Len(current_routes)
    /\ Last(current_routes[route_index]) # end_point
    /\ Len(current_routes[route_index]) < MaxRouteLen
    /\ current_routes' =
          [current_routes EXCEPT
              ![route_index] = @ \o Appended(solution, max_routes, Last(current_routes[route_index]))]
    /\ UNCHANGED <<page, variant, pc, args, status, solution, direct_shipments, routes, route_index,
                   result, error>>

\* optimizer.py 117, 124: the while loop ends, routes.append(route)
FinishRoute ==
    /\ variant = "optimizer"
    /\ pc = "routes"
    /\ route_index <= Len(current_routes)
    /\ Last(current_routes[route_index]) = end_point
    /\ routes' = Append(routes, current_routes[route_index])
    /\ route_index' = route_index + 1
    /\ UNCHANGED <<page, variant, pc, args, status, solution, direct_shipments, current_routes,
                   result, error>>

\* optimizer.py 126-130
Return ==
    /\ variant = "optimizer"
    /\ pc = "routes"
    /\ route_index > Len(current_routes)
    /\ result' = [direct_shipments |-> direct_shipments,
                  routes |-> routes,
                  total_cost |-> Cost(solution)]
    /\ pc' = "done"
    /\ UNCHANGED <<page, variant, args, status, solution, direct_shipments, current_routes,
                   routes, route_index, error>>

(* ---- app.py: solve and extraction (70-103) ------------------------------ *)
AppCost(a) == AppObjective(a, direct_costs, driving_times)

AppFeasibleNow == AppFeasible(max_routes, driving_times, max_driving_time)

AppOptimalAssignments(F) ==
    LET values == {AppCost(a) : a \in F}
        least == CHOOSE c \in values : \A d \in values : c <= d
    IN  {a \in F : AppCost(a) = least}

\* app.py 39: a lookup fails while the problem is built and the KeyError
\* leaves optimize_routes
AppRaiseKeyError ==
    /\ variant = "app"
    /\ pc = "start"
    /\ KeyError(direct_costs, bank, bank) # None
    /\ error' = <<"KeyError", KeyError(direct_costs, bank, bank)>>
    /\ pc' = "failed"
    /\ UNCHANGED <<page, variant, args, status, solution, direct_shipments, current_routes,
                   routes, route_index, result>>

\* app.py 23-71: build the problem and solve it
AppSolve ==
    /\ variant = "app"
    /\ pc = "start"
    /\ KeyError(direct_costs, bank, bank) = None
    /\ LET F == AppFeasibleNow
       IN  IF F = {}
           THEN /\ \E code \in NoSolutionStatus : status' = LpStatus[code]
                /\ solution' = NoAssignment
           ELSE /\ status' = LpStatus[1]
                /\ solution' \in AppOptimalAssignments(F)
    /\ pc' = "solved"
    /\ UNCHANGED <<page, variant, args, direct_shipments, current_routes, routes,
                   route_index, result, error>>

\* app.py 74-75: the status check
AppRaiseNotOptimal ==
    /\ variant = "app"
    /\ pc = "solved"
    /\ status # "Optimal"
    /\ error' = <<"Could not find an optimal solution. Status: ", status>>
    /\ pc' = "raised"
    /\ UNCHANGED <<page, variant, args, status, solution, direct_shipments, current_routes,
                   routes, route_index, result>>

\* Find the starting depots from the bank: [bank, j] per selected y[bank, j]
AppStartingRoutes(a) ==
    LET Selected(j) == y(a, bank, j) = 1
        hits == SelectSeq(depots, Selected)
    IN  [m \in 1..Len(hits) |-> <<bank, hits[m]>>]

\* `for j in all_locations`: the first j with y[current, j] selected is
\* appended and the break ends the loop.
AppAppended(a, current) ==
    LET Selected(j) == j # current /\ y(a, current, j) = 1
        hits == SelectSeq(all_locations, Selected)
    IN  IF hits = <<>> THEN <<>> ELSE <<hits[1]>>

\* app.py 78-87
AppExtractResults ==
    /\ variant = "app"
    /\ pc = "solved"
    /\ status = "Optimal"
    /\ direct_shipments' = DirectShipments(solution)
    /\ routes' = <<>>
    /\ current_routes' = AppStartingRoutes(solution)
    /\ route_index' = 1
    /\ pc' = "routes"
    /\ UNCHANGED <<page, variant, args, status, solution, result, error>>

\* app.py 91-96: one iteration of the while loop
AppCompleteStep ==
    /\ variant = "app"
    /\ pc = "routes"
    /\ route_index <= Len(current_routes)
    /\ Last(current_routes[route_index]) # bank
    /\ Len(current_routes[route_index]) < MaxRouteLen
    /\ current_routes' =
          [current_routes EXCEPT
              ![route_index] = @ \o AppAppended(solution, Last(current_routes[route_index]))]
    /\ UNCHANGED <<page, variant, pc, args, status, solution, direct_shipments, routes,
                   route_index, result, error>>

\* app.py 91, 97: the while loop ends, routes.append(route)
AppFinishRoute ==
    /\ variant = "app"
    /\ pc = "routes"
    /\ route_index <= Len(current_routes)
    /\ Last(current_routes[route_index]) = bank
    /\ routes' = Append(routes, current_routes[route_index])
    /\ route_index' = route_index + 1
    /\ UNCHANGED <<page, variant, pc, args, status, solution, direct_shipments,
                   current_routes, result, error>>

\* app.py 99-103
AppReturn ==
    /\ variant = "app"
    /\ pc = "routes"
    /\ route_index > Len(current_routes)
    /\ result' = [direct_shipments |-> direct_shipments,
                  routes |-> routes,
                  total_cost |-> AppCost(solution)]
    /\ pc' = "done"
    /\ UNCHANGED <<page, variant, args, status, solution, direct_shipments, current_routes,
                   routes, route_index, error>>

(* ---- ui.py: display_optimization_results (171-258) --------------------- *)
\* ui.py 229-233: the driving cost shown for the leg from_depot -> to_depot
DrivingCost(from_depot, to_depot, times, dists, drate, trate) ==
    LET driving_time == Get(times, <<from_depot, to_depot>>, 0) * trate
        driving_distance == Get(dists, <<from_depot, to_depot>>, 0) * drate
    IN  driving_time * trate + driving_distance * drate

\* ui.py 212-235: route_driving_cost after the loop over the stops
RouteDrivingCost(route, times, dists, drate, trate) ==
    lpSum([j \in 2..Len(route) |->
             DrivingCost(route[j - 1], route[j], times, dists, drate, trate)])

\* ui.py 181-258: total_cost as written under "Overall total cost"
OverallTotalCost(res, dcosts, times, dists, drate, trate) ==
    lpSum([depot \in DOMAIN res.direct_shipments |-> dcosts[depot]])
      + lpSum([i \in 1..Len(res.routes) |->
                 RouteDrivingCost(res.routes[i], times, dists, drate, trate)])

\* ui.py 171-258: the results of optimizer.optimize_routes are displayed
DisplayOptimizationResults ==
    /\ variant = "optimizer"
    /\ pc = "done"
    /\ overall_total_cost' = OverallTotalCost(result, direct_costs, driving_times,
                                              driving_distances, distance_rate, time_rate)
    /\ pc' = "displayed"
    /\ UNCHANGED <<variant, args, status, solution, direct_shipments, current_routes,
                   routes, route_index, result, error, driving_times_data, row_index>>

(* ---- app.py main: the driving times dictionary (263-272) ---------------- *)
\* d[key] = value
Put(d, key, value) == [q \in DOMAIN d \cup {key} |-> IF q = key THEN value ELSE d[q]]

\* the rows of the driving-time table: two different designations and a
\* driving time (float() of a number keeps its value)
RecordTimes == {10, 20}
Rows == {r \in [depot1 : LocationSet, depot2 : LocationSet, time : RecordTimes] :
            r.depot1 # r.depot2}
RowSequences == UNION {[1..len -> Rows] : len \in 0..MaxRecords}

\* main() at `if st.button("Optimize Routes")`, before the loop over the rows
IngestInit ==
    /\ variant = "app"
    /\ pc = "ingest"
    /\ driving_times_data \in RowSequences
    /\ row_index = 1
    /\ driving_times = NoEntries
    /\ start_point = bank
    /\ end_point = bank
    /\ fixed_decisions = [i \in DepotSet |-> "Not fixed"]
    /\ direct_costs = ScenarioCosts
    /\ driving_distances = NoEntries
    /\ max_driving_time = 90
    /\ max_routes = 1
    /\ distance_rate = 0
    /\ time_rate = 1
    /\ status = LpStatus[0]
    /\ solution = NoAssignment
    /\ direct_shipments = None
    /\ current_routes = <<>>
    /\ routes = <<>>
    /\ route_index = 0
    /\ result = None
    /\ error = None
    /\ overall_total_cost = None

\* app.py 265-272: one iteration of the loop over the rows
IngestRow ==
    /\ pc = "ingest"
    /\ row_index <= Len(driving_times_data)
    /\ LET row == driving_times_data[row_index]
           depot1 == row.depot1
           depot2 == row.depot2
           time == row.time
           stored == Put(driving_times, <<depot1, depot2>>, time)
       IN  driving_times' = IF <<depot2, depot1>> \notin DOMAIN stored
                            THEN Put(stored, <<depot2, depot1>>, time)
                            ELSE stored
    /\ row_index' = row_index + 1
    /\ UNCHANGED <<variant, pc, start_point, end_point, direct_costs, fixed_decisions,
                   driving_distances, max_driving_time, max_routes, distance_rate,
                   time_rate, status, solution, direct_shipments, current_routes, routes,
                   route_index, result, error, driving_times_data, overall_total_cost>>

\* app.py 265: the loop over the rows ends
EndIngestion ==
    /\ pc = "ingest"
    /\ row_index > Len(driving_times_data)
    /\ pc' = "ingested"
    /\ UNCHANGED <<page, variant, args, status, solution, direct_shipments, current_routes,
                   routes, route_index, result, error>>

IngestNext ==
    \/ IngestRow
    \/ EndIngestion

IngestSpec == IngestInit /\ [][IngestNext]_vars

Next ==
    \/ RaiseKeyError
    \/ Solve
    \/ RaiseNotOptimal
    \/ ExtractResults
    \/ CompleteStep
    \/ FinishRoute
    \/ Return
    \/ DisplayOptimizationResults
    \/ AppRaiseKeyError
    \/ AppSolve
    \/ AppRaiseNotOptimal
    \/ AppExtractResults
    \/ AppCompleteStep
    \/ AppFinishRoute
    \/ AppReturn

Spec == Init /\ [][Next]_vars

(***************************************************************************)
(* Properties                                                              *)
(***************************************************************************)
Returned == pc = "done"
DirectSet == DOMAIN result.direct_shipments
Occurrences(route, d) == Cardinality({m \in 1..Len(route) : route[m] = d})
RoutesHolding(d) == {m \in 1..Len(result.routes) : Occurrences(result.routes[m], d) > 0}
Untouched == [i \in DepotSet |-> "Not fixed"]

\* C1: in every returned result each depot is either in direct_shipments or
\* in exactly one returned route, there exactly once; never both, never
\* neither.
C1_DepotInExactlyOnePlace ==
    Returned =>
        \A d \in DepotSet :
            \/ /\ d \in DirectSet
               /\ RoutesHolding(d) = {}
            \/ /\ d \notin DirectSet
               /\ \E m \in 1..Len(result.routes) :
                     /\ RoutesHolding(d) = {m}
                     /\ Occurrences(result.routes[m], d) = 1

\* C2: every returned route starts at the start point and ends at the end
\* point (both the bank in app.py).
C2_RoutesStartAndEndAtAnchors ==
    Returned =>
        \A m \in 1..Len(result.routes) :
            /\ result.routes[m][1] = start_point
            /\ Last(result.routes[m]) = end_point

\* C2 witness: two routes returned for a depot end point, one of which
\* passed through the bank on its way.
C2_Witness ==
    /\ Returned
    /\ variant = "optimizer"
    /\ start_point = bank
    /\ end_point # bank
    /\ Len(result.routes) = 2
    /\ \E m \in 1..2 : Occurrences(result.routes[m], bank) = 2

\* Some set of depots is closed under selected links: a cycle of selected
\* links made of depots only.
HasDepotCycle(a) ==
    \E C \in (SUBSET DepotSet) \ {{}} :
        \A i \in C : \E j \in C : \E e \in a.link : e[1] = i /\ e[2] = j

\* For every assignment and every value of u that meets the MTZ constraints,
\* a selected link between two depots has u increasing along it.
MTZForcesOrder(K) ==
    \A a \in StructuralTable[K] : \A u \in Positions(K) :
        MTZConstraints(a, u, K) =>
            \A i \in DepotSet : \A j \in DepotSet : \A k \in all_routes(K) :
                (i # j /\ link(a, i, j, k) = 1) => u[<<i, k>>] < u[<<j, k>>]
MTZOrderTable == [K \in 1..MaxRoutes |-> MTZForcesOrder(K)]

AppMTZForcesOrder(maxr) ==
    \A a \in AppStructuralTable[maxr] : \A u \in AppPositions :
        AppMTZConstraints(a, u) =>
            \A i \in DepotSet : \A j \in DepotSet :
                (i # j /\ y(a, i, j) = 1) => u[i] < u[j]
AppMTZOrderTable == [maxr \in 1..MaxRoutes |-> AppMTZForcesOrder(maxr)]

\* C3: the MTZ constraints force position[i,k] < position[j,k] on every
\* selected link between two depots, and no assignment that satisfies the
\* assembled constraints holds a cycle of selected links made of depots only.
C3_NoDepotOnlyCycle ==
    pc = "solved" =>
        IF variant = "optimizer"
        THEN /\ MTZOrderTable[max_routes]
             /\ \A a \in FeasibleNow : ~HasDepotCycle(a)
        ELSE /\ AppMTZOrderTable[max_routes]
             /\ \A a \in AppFeasibleNow : ~HasDepotCycle(a)

\* C3 witness: the solution drives from one depot to another, and a cycle of
\* two depots that meets every other constraint would have been cheaper.
C3_Witness ==
    /\ pc = "solved"
    /\ variant = "optimizer"
    /\ status = "Optimal"
    /\ \E e \in solution.link : e[1] \in DepotSet /\ e[2] \in DepotSet
    /\ \E c \in StructuralTable[max_routes] :
          /\ HasDepotCycle(c)
          /\ FixedDecisionConstraints(c, fixed_decisions, start_point, end_point)
          /\ StartPointConstraint(c, max_routes, start_point)
          /\ EndPointConstraint(c, max_routes, end_point)
          /\ RouteTimeConstraints(c, max_routes, driving_times, max_driving_time)
          /\ Cost(c) < Cost(solution)

\* the driving time along the consecutive stops of a route
RouteDrivingTime(route) ==
    lpSum([m \in 1..(Len(route) - 1) |-> Get(driving_times, <<route[m], route[m + 1]>>, 0)])

\* C4: the driving time along every returned route is at most
\* max_driving_time.
C4_RouteWithinTimeBudget ==
    Returned =>
        \A m \in 1..Len(result.routes) :
            RouteDrivingTime(result.routes[m]) <= max_driving_time

\* C5: a depot fixed to 'Wait for pickup' is never in direct_shipments; a
\* depot fixed to 'Ship to bank' is, unless it is the start or the end point.
C5_FixedDecisionsHonoured ==
    (Returned /\ variant = "optimizer") =>
        \A d \in DepotSet :
            /\ fixed_decisions[d] = "Wait for pickup" => d \notin DirectSet
            /\ (fixed_decisions[d] = "Ship to bank" /\ d # start_point /\ d # end_point)
                  => d \in DirectSet

\* C5 witness: a depot fixed to 'Ship to bank' is shipped directly although
\* the call without its fixed decision has a cheaper optimum.
C5_Witness ==
    /\ Returned
    /\ variant = "optimizer"
    /\ \E d \in DepotSet :
          /\ fixed_decisions[d] = "Ship to bank"
          /\ d \in DirectSet
          /\ \E b \in Feasible(max_routes, [fixed_decisions EXCEPT ![d] = "Not fixed"],
                              start_point, end_point, driving_times, max_driving_time) :
                 d \notin b.direct /\ Cost(b) < result.total_cost

\* the cost of the returned direct shipments
DirectTotal == lpSum([d \in DirectSet |-> direct_costs[d]])
\* the price of one link: time and distance at their rates, a missing pair 0
LinkPrice(i, j) ==
    (IF <<i, j>> \in DOMAIN driving_times THEN driving_times[<<i, j>>] ELSE 0) * time_rate
      + (IF <<i, j>> \in DOMAIN driving_distances THEN driving_distances[<<i, j>>] ELSE 0)
          * distance_rate
RawTime(i, j) == IF <<i, j>> \in DOMAIN driving_times THEN driving_times[<<i, j>>] ELSE 0

\* C6: total_cost is the direct costs of the returned direct shipments plus
\* the price of every selected link (the raw driving time in app.py).
C6_TotalCostIsSumOfParts ==
    Returned =>
        result.total_cost =
            DirectTotal + lpSum([e \in solution.link |->
                                   IF variant = "optimizer"
                                   THEN LinkPrice(e[1], e[2])
                                   ELSE RawTime(e[1], e[2])])

\* C6 witness: a result with a direct shipment and a route over a pair that
\* has a distance but no driving time.
C6_Witness ==
    /\ Returned
    /\ variant = "optimizer"
    /\ DirectSet # {}
    /\ distance_rate > 0
    /\ \E e \in solution.link :
          /\ <<e[1], e[2]>> \notin DOMAIN driving_times
          /\ <<e[1], e[2]>> \in DOMAIN driving_distances

\* The scenario of C7 and C8: bank H, depots A (50) and B (80), driving
\* times H-A 20, A-B 15, B-H 25 and no other entry, one route, routes
\* from and to the bank, nothing fixed, time priced 1 and distance 0.
ScenarioCall(budget) ==
    /\ direct_costs = ScenarioCosts
    /\ driving_times = ScenarioTimes
    /\ max_driving_time = budget
    /\ max_routes = 1
    /\ start_point = bank
    /\ end_point = bank
    /\ fixed_decisions = Untouched
    /\ driving_distances = NoEntries
    /\ time_rate = 1
    /\ distance_rate = 0

\* C7 as claimed: with a budget of 90 the result is the route H,A,B,H, no
\* direct shipment and a total cost of 60.
C7_AsClaimed ==
    (ScenarioCall(90) /\ Returned) =>
        /\ result.routes = <<<<"H", "A", "B", "H">>>>
        /\ DirectSet = {}
        /\ result.total_cost = 60

\* C7 amended: with a budget of 90 a result is returned, and it is the
\* route H,B,A,H over the three pairs without an entry, no direct shipment
\* and a total cost of 0.
C7_ScenarioBudget90 ==
    ScenarioCall(90) =>
        /\ pc # "raised"
        /\ Returned =>
              /\ result.routes = <<<<"H", "B", "A", "H">>>>
              /\ DirectSet = {}
              /\ result.total_cost = 0

\* C7 witness: the scenario call of optimizer.py has returned.
C7_Witness == ScenarioCall(90) /\ Returned /\ variant = "optimizer"

\* C8 as claimed: with a budget of 30 both depots ship directly, no route
\* is returned and the total cost is 130.
C8_AsClaimed ==
    (ScenarioCall(30) /\ Returned) =>
        /\ result.routes = <<>>
        /\ DirectSet = {"A", "B"}
        /\ result.total_cost = 130

\* C8 amended: with a budget of 30 a result is returned, and it is the
\* route H,B,A,H, whose driving time counts as 0, no direct shipment and a
\* total cost of 0.
C8_ScenarioBudget30 ==
    ScenarioCall(30) =>
        /\ pc # "raised"
        /\ Returned =>
              /\ result.routes = <<<<"H", "B", "A", "H">>>>
              /\ RouteDrivingTime(result.routes[1]) = 0
              /\ DirectSet = {}
              /\ result.total_cost = 0

\* C8 witness: the scenario call of app.py has returned.
C8_Witness == ScenarioCall(30) /\ Returned /\ variant = "app"

\* C9: with two distinct depots as start and end point and max_routes = 1,
\* one route is returned; it begins with the start point, ends with the end
\* point and does not hold the bank.
C9_DepotToDepotRoute ==
    ( /\ Returned
      /\ variant = "optimizer"
      /\ start_point \in DepotSet
      /\ end_point \in DepotSet
      /\ start_point # end_point
      /\ max_routes = 1 ) =>
        /\ Len(result.routes) = 1
        /\ result.routes[1][1] = start_point
        /\ Last(result.routes[1]) = end_point
        /\ Occurrences(result.routes[1], bank) = 0

\* C9 witness: from depot A to depot B with one route.
C9_Witness ==
    /\ Returned
    /\ variant = "optimizer"
    /\ start_point = "A"
    /\ end_point = "B"
    /\ max_routes = 1
    /\ result.routes = <<<<"A", "B">>>>

NotOptimal == pc \notin {"start", "failed"} /\ status # "Optimal"
NothingExtracted ==
    /\ result = None
    /\ direct_shipments = None
    /\ current_routes = <<>>
    /\ routes = <<>>

\* C10: once the status is not Optimal nothing is extracted or returned, the
\* only step taken raises the error with that status, and there is no step
\* after it (no second solve, no changed input).
C10_NotOptimalRaises ==
    /\ [](NotOptimal => (pc \in {"solved", "raised"} /\ NothingExtracted))
    /\ [](pc = "raised" =>
            (NotOptimal /\ error = <<"Could not find an optimal solution. Status: ", status>>))
    /\ [][NotOptimal =>
            (pc = "solved" /\ pc' = "raised" /\ UNCHANGED <<args, status, solution>>)]_vars

\* C10 witness: the exception raised for the status Undefined.
C10_Witness == pc = "raised" /\ status = "Undefined" /\ variant = "optimizer"

\* the call cannot be built: a depot without a direct cost, or an anchor
\* that is neither the bank nor a listed depot
Misconfigured ==
    \/ \E i \in DepotSet : i \notin DOMAIN direct_costs
    \/ start_point \notin LocationSet
    \/ end_point \notin LocationSet

\* C11: when a depot has no entry in direct_costs, or the start or the end
\* point is neither the bank nor a listed depot, the call fails with an
\* error: the failure is the one step it can take, the solver is never
\* invoked (the status stays Not Solved, no assignment exists) and nothing
\* is extracted or returned.
C11_MisconfiguredCallFails ==
    Misconfigured =>
        /\ pc \in {"start", "failed"}
        /\ pc = "start" => ENABLED (RaiseKeyError \/ AppRaiseKeyError)
        /\ pc = "failed" => error # None
        /\ status = LpStatus[0]
        /\ solution = NoAssignment
        /\ NothingExtracted

\* C11 witness: the call with an unlisted end point has failed on the
\* lookup of link[end_point, bank, 1].
C11_Witness ==
    /\ pc = "failed"
    /\ variant = "optimizer"
    /\ DepotSet \subseteq DOMAIN direct_costs
    /\ start_point \in DepotSet
    /\ end_point = Unlisted
    /\ error = <<"KeyError", <<Unlisted, bank, 1>>>>

\* C12: a returned result never holds more than max_routes routes, in both
\* variants and for every start and end point.
C12_RouteCountWithinBound ==
    Returned => Len(result.routes) <= max_routes

\* C12 witness: one route is returned for max_routes = 1 although leaving
\* the bank twice would meet the other constraints and cost less.
C12_Witness ==
    /\ Returned
    /\ variant = "optimizer"
    /\ max_routes = 1
    /\ Len(result.routes) = 1
    /\ \E c \in StructuralTable[max_routes + 1] :
          /\ Cardinality({e \in c.link : e[1] = bank}) = 2
          /\ FixedDecisionConstraints(c, fixed_decisions, start_point, end_point)
          /\ StartPointConstraint(c, max_routes + 1, start_point)
          /\ EndPointConstraint(c, max_routes + 1, end_point)
          /\ RouteTimeConstraints(c, max_routes + 1, driving_times, max_driving_time)
          /\ Objective(c, max_routes + 1, direct_costs, driving_times, driving_distances,
                       distance_rate, time_rate) < result.total_cost

\* every consecutive pair of the route is a selected link of route index k
WalksSelectedLinks(route, k) ==
    \A m \in 1..(Len(route) - 1) : link(solution, route[m], route[m + 1], k) = 1

\* C13: with max_routes > 1 every returned route walks selected links of one
\* and the same route index, and every step of the completion loop appends
\* exactly one location.
C13_NoSplicing ==
    /\ []((Returned /\ variant = "optimizer" /\ max_routes > 1) =>
            \A m \in 1..Len(result.routes) :
                \E k \in all_routes(max_routes) : WalksSelectedLinks(result.routes[m], k))
    /\ [][(max_routes > 1 /\ CompleteStep) =>
            Len(current_routes'[route_index]) = Len(current_routes[route_index]) + 1]_vars

\* C14: the completion loop of every route reaches the end point after
\* appending at most len(depots) + 1 locations to its two-stop seed, so no
\* route under completion ever holds more than len(depots) + 3 stops.
C14_ReconstructionTerminates ==
    pc = "routes" =>
        \A m \in 1..Len(current_routes) :
            Len(current_routes[m]) <= Len(depots) + 3

\* the rows of the table from depot a to depot b
RowsOf(a, b) ==
    {m \in 1..Len(driving_times_data) :
        driving_times_data[m].depot1 = a /\ driving_times_data[m].depot2 = b}
LastRowOf(a, b) == CHOOSE m \in RowsOf(a, b) : \A q \in RowsOf(a, b) : q <= m

\* C15: after the rows are processed, a pair (a, b) with rows but without a
\* row from b to a has driving_times[(b, a)] = driving_times[(a, b)], and a
\* pair with rows of its own holds the value supplied for it (the last one)
\* and not a mirrored one, whatever the order of the rows.
C15_MirroredWhenOneDirection ==
    pc = "ingested" =>
        \A a \in LocationSet : \A b \in LocationSet \ {a} :
            /\ (RowsOf(a, b) # {} /\ RowsOf(b, a) = {}) =>
                  /\ <<a, b>> \in DOMAIN driving_times
                  /\ <<b, a>> \in DOMAIN driving_times
                  /\ driving_times[<<b, a>>] = driving_times[<<a, b>>]
            /\ RowsOf(a, b) # {} =>
                  /\ <<a, b>> \in DOMAIN driving_times
                  /\ driving_times[<<a, b>>] = driving_times_data[LastRowOf(a, b)].time

\* every depot ships directly and no link is selected
AllDirect == [direct |-> DepotSet, link |-> {}]
\* no depot waits for pickup, routes start and end at the bank and the budget
\* is not negative
DirectAlwaysPossible ==
    /\ \A i \in DepotSet : fixed_decisions[i] # "Wait for pickup"
    /\ start_point = bank
    /\ end_point = bank
    /\ max_driving_time >= 0

\* C16: when no depot is fixed to 'Wait for pickup', start and end point are
\* the bank and max_driving_time >= 0, the all-direct assignment satisfies
\* every constraint of the problem, the status reported by the solver is
\* Optimal, and total_cost is at most the sum of all direct costs.
C16_AllDirectIsFeasible ==
    (DirectAlwaysPossible /\ pc \notin {"start", "failed"}) =>
        /\ AllDirect \in (IF variant = "optimizer" THEN FeasibleNow ELSE AppFeasibleNow)
        /\ status = "Optimal"
        /\ pc # "raised"
        /\ Returned => result.total_cost <= lpSum([i \in DepotSet |-> direct_costs[i]])

\* C16 witness: with a budget of 0 and a depot fixed to 'Ship to bank' the
\* returned result is the all-direct one, at the sum of the direct costs.
C16_Witness ==
    /\ Returned
    /\ variant = "optimizer"
    /\ DirectAlwaysPossible
    /\ max_driving_time = 0
    /\ \E i \in DepotSet : fixed_decisions[i] = "Ship to bank"
    /\ DirectSet = DepotSet
    /\ result.routes = <<>>
    /\ result.total_cost = lpSum([i \in DepotSet |-> direct_costs[i]])

\* the price of the consecutive pairs of a route
RoutePrice(route) ==
    lpSum([m \in 1..(Len(route) - 1) |-> LinkPrice(route[m], route[m + 1])])

\* C17: total_cost is the direct costs of the returned direct shipments plus
\* the price (time * time_rate + distance * distance_rate) of the
\* consecutive pairs of the returned routes, also when the start or the end
\* point is a depot.
C17_TotalCostMatchesRoutes ==
    (Returned /\ variant = "optimizer") =>
        result.total_cost =
            DirectTotal + lpSum([m \in 1..Len(result.routes) |-> RoutePrice(result.routes[m])])

\* one route from the bank to each depot and back
Shuttles ==
    [direct |-> {},
     link |-> {<<bank, i, 1>> : i \in DepotSet} \cup {<<i, bank, 1>> : i \in DepotSet}]
ShuttleTime(i) == RawTime(bank, i) + RawTime(i, bank)

\* C18: in app.py the driving time of all returned routes together is at
\* most max_driving_time.
C18_JointTimeWithinBudget ==
    (Returned /\ variant = "app") =>
        lpSum([m \in 1..Len(result.routes) |-> RouteDrivingTime(result.routes[m])])
            <= max_driving_time

\* C18 witness: with max_routes = 2 a result is returned although one route
\* per depot would cost less and each of them fits the budget alone; together
\* they exceed it.
C18_Witness ==
    /\ Returned
    /\ variant = "app"
    /\ max_routes = 2
    /\ Shuttles \in AppStructuralTable[max_routes]
    /\ AppPositionsExist(Shuttles)
    /\ \A i \in DepotSet : ShuttleTime(i) <= max_driving_time
    /\ lpSum([i \in DepotSet |-> ShuttleTime(i)]) > max_driving_time
    /\ AppCost(Shuttles) < result.total_cost
    /\ result.routes # <<>>

\* C19: the overall total cost that display_optimization_results computes
\* from the returned routes equals the total_cost of optimize_routes, for
\* every distance_rate and time_rate.
C19_DisplayedTotalIsTotalCost ==
    pc = "displayed" => overall_total_cost = result.total_cost

====
